---- MODULE Spec2Model ----
(***************************************************************************)
(* Model of the oncall voice-to-mockup pipeline.                           *)
(*                                                                         *)
(*   - the client pipeline of packages/client/src/App.tsx: debounced       *)
(*     intent detection, ticket creation, mockup generation, variant       *)
(*     selection, removal and export during one call (specification Spec); *)
(*   - the same pipeline without the ticket buttons, over calls that are   *)
(*     started and ended through useConversationTranscription             *)
(*     (specifications SpecCall and SpecCallFair);                         *)
(*   - the signed cookie codec of the server's session service             *)
(*     (specification SpecCodec);                                          *)
(*   - the OAuth and export routes of packages/server/src/index.ts with    *)
(*     one browser's cookie jar (specifications SpecOAuth, SpecSession).   *)
(*                                                                         *)
(* Every step of Spec is one JavaScript macrotask: an event handler, a     *)
(* timer callback up to its first await, or the continuation of an await   *)
(* up to the next one.  React state setters are applied at the end of the  *)
(* step.  Not modelled: Date.now() timestamps, the transcriptEvents,       *)
(* isSpeaking and error states of the hook, which are only displayed, and  *)
(* selectedTicketId with handleSelectTicket, which only choose the ticket  *)
(* that MockupPreview displays (its onSelectVariant is                     *)
(* handleSelectMockupVariant on that ticket, covered here by arbitrary     *)
(* ticket ids).                                                            *)
(*                                                                         *)
(* Every step of SpecOAuth and SpecSession is the browser sending a        *)
(* request, the server running a route handler up to its next await, an    *)
(* awaited call settling, or the browser applying a response to its        *)
(* cookie jar.  The server runs with LINEAR_OAUTH_CLIENT_ID,               *)
(* LINEAR_OAUTH_CLIENT_SECRET and PUBLIC_ORIGIN set; SESSION_SECRET may be *)
(* unset.  hono's setCookie and getCookie (encodeURIComponent and          *)
(* decodeURIComponent) are outside the sources and are taken to hand a     *)
(* cookie value back unchanged.                                            *)
(***************************************************************************)
EXTENDS Integers, Sequences, FiniteSets, Bags, TLC

\* ------------------------------------------------------------------------
\* Bounds of the model
\* ------------------------------------------------------------------------
MaxFragments == 2
MaxIntents == 2
MaxTickets == 2
MaxExports == 2
MaxVariants == 2
MaxLen == 2
DigestLen == 2
MaxNonces == 1
MaxConnects == 2
MaxInFlight == 2
MaxSessions == 1

\* ------------------------------------------------------------------------
\* Input domains
\* ------------------------------------------------------------------------
\* the text of the n-th message of the session: every message has its own text
Texts(n) == {n}
\* the component named by the classifier
Components == {"button"}
Roles == {"user", "agent"}
\* confidence in hundredths: 0.60, 0.70, 0.71
Confidences == {60, 70, 71}
IntentResults == [isUiRequest : BOOLEAN, confidence : Confidences, component : Components]

None == <<>>
Some(x) == <<x>>
Undefined == <<>>

\* ------------------------------------------------------------------------
\* State
\* ------------------------------------------------------------------------
VARIABLES
    detectedIntents,     \* useState<DetectedIntent[]>
    tickets,             \* useState<Ticket[]>
    isGeneratingMockup,  \* useState(false)
    intentDebounceRef,   \* useRef timer handle; 0 is null
    intentIdCounter,     \* useRef(0)
    ticketIdCounter,     \* useRef(0)
    eventIdCounter,      \* useRef(0) of the transcription hook
    timers,              \* pending setTimeout callbacks: [id, text]
    timerSeq,            \* last timer handle handed out by setTimeout
    intentCalls,         \* detectIntent requests in flight: [id, text]
    mockupCalls,         \* generateMockup requests in flight: ticket ids
    exportCalls,         \* exportToLinear requests in flight: how many per ticket id
    exportSeq,           \* number of exportToLinear requests issued
    burst,               \* history: texts of the fragments that arrived while a timer was pending
    connectionStatus,    \* useState<ConnectionStatus>('disconnected') of the transcription hook
    sessionSeq,          \* number of startSession calls
    failedFragment,      \* history: text of the fragment whose classification failed last; 0 is none
    staleResult,         \* history: a generateMockup result arrived for a ticket that had been removed
    codecSecret,         \* process.env.SESSION_SECRET
    codecValue,          \* argument of createSignedValue
    codecBlob,           \* the signed value handed to verifySignedValue
    codecTampered,       \* whether the signature part of codecBlob was altered
    codecResult,         \* result of verifySignedValue
    codecPc,             \* position of the codec scenario
    jar,                 \* the browser's cookies linear_oauth_state and linear_session
    requests,            \* bag of HTTP exchanges in flight
    nonceCounter,        \* number of crypto.randomUUID() values handed out
    spent,               \* history: states whose accepting response was applied to jar
    loggedOut,           \* history: logout was applied to jar and no callback succeeded since
    rejectedState        \* history: the state cookie jar held when it last applied the
                         \* response of a callback whose state was wrong or missing

clientVars == <<detectedIntents, tickets, isGeneratingMockup,
                intentDebounceRef, intentIdCounter, ticketIdCounter, eventIdCounter,
                timers, timerSeq, intentCalls, mockupCalls, exportCalls, exportSeq,
                burst, connectionStatus, sessionSeq, failedFragment, staleResult>>
codecVars == <<codecSecret, codecValue, codecBlob, codecTampered, codecResult, codecPc>>
serverVars == <<jar, requests, nonceCounter, spent, loggedOut, rejectedState>>
vars == <<clientVars, codecVars, serverVars>>

\* ------------------------------------------------------------------------
\* Helpers on the ticket list
\* ------------------------------------------------------------------------
TicketIds == 1..MaxTickets

Indexes(list) == 1..Len(list)

\* the update applied to every ticket of the list
MapTicketAll(list, id, updated) == updated

\* prev.map((t) => t.id === id ? f(t) : t), where updated[i] is f(list[i])
MapTicket(list, id, updated) ==
    [i \in Indexes(list) |-> IF list[i].id = id THEN updated[i] ELSE list[i]]

\* the ids of the tickets of a list
IdsOf(list) == {list[i].id : i \in Indexes(list)}

\* prev.filter((t) => t.id !== id)
FilterOut(list, id) == SelectSeq(list, LAMBDA t : t.id # id)

\* tickets.find((t) => t.id === id); None when there is none
FindTicket(list, id) ==
    IF \E i \in 1..Len(list) : list[i].id = id
    THEN Some(list[CHOOSE i \in 1..Len(list) :
                     /\ list[i].id = id
                     /\ \A j \in 1..(i - 1) : list[j].id # id])
    ELSE None

\* results of generateMockup for the request of ticket id: MockupResultSchema
\* allows 1-2 variants; html stands for the content generated for that request
VariantLists(id) ==
    {[i \in 1..n |-> [name |-> i, html |-> id]] : n \in 1..MaxVariants}

\* issue.url of an issue created by a request made for ticket id
IssueUrl(id) == <<"issue", id>>

ClientInit ==
    /\ detectedIntents = <<>>
    /\ tickets = <<>>
    /\ isGeneratingMockup = FALSE
    /\ intentDebounceRef = 0
    /\ intentIdCounter = 0
    /\ ticketIdCounter = 0
    /\ eventIdCounter = 0
    /\ timers = {}
    /\ timerSeq = 0
    /\ intentCalls = {}
    /\ mockupCalls = {}
    /\ exportCalls = [id \in TicketIds |-> 0]
    /\ exportSeq = 0
    /\ burst = <<>>
    /\ connectionStatus = "disconnected"
    /\ sessionSeq = 0
    /\ failedFragment = 0
    /\ staleResult = FALSE

CodecIdle ==
    /\ codecSecret = "s1"
    /\ codecValue = <<>>
    /\ codecBlob = <<>>
    /\ codecTampered = FALSE
    /\ codecResult = [kind |-> "null", value |-> <<>>]
    /\ codecPc = "idle"

ServerIdle ==
    /\ jar = [state |-> None, session |-> None]
    /\ requests = EmptyBag
    /\ nonceCounter = 0
    /\ spent = {}
    /\ loggedOut = FALSE
    /\ rejectedState = None

Init == ClientInit /\ CodecIdle /\ ServerIdle

\* ------------------------------------------------------------------------
\* The call: startSession and endSession of useConversationTranscription
\* ------------------------------------------------------------------------
pipelineVars == <<detectedIntents, tickets, isGeneratingMockup,
                  intentDebounceRef, intentIdCounter, ticketIdCounter, eventIdCounter,
                  timers, timerSeq, intentCalls, mockupCalls, exportCalls, exportSeq,
                  burst, failedFragment, staleResult>>

\* startSession up to its first await, from the button that CallControls
\* shows while no call is connected
startSession ==
    /\ connectionStatus \in {"disconnected", "error"}
    /\ sessionSeq < MaxSessions
    /\ sessionSeq' = sessionSeq + 1
    /\ connectionStatus' = "connecting"
    /\ UNCHANGED pipelineVars
    /\ UNCHANGED <<codecVars, serverVars>>

\* onConnect, once conversation.startSession has opened the connection
onConnect ==
    /\ connectionStatus = "connecting"
    /\ connectionStatus' = "connected"
    /\ UNCHANGED <<pipelineVars, sessionSeq>>
    /\ UNCHANGED <<codecVars, serverVars>>

\* the catch block of startSession: fetchSignedUrl or conversation.startSession threw
startSessionFailed ==
    /\ connectionStatus = "connecting"
    /\ connectionStatus' = "error"
    /\ UNCHANGED <<pipelineVars, sessionSeq>>
    /\ UNCHANGED <<codecVars, serverVars>>

\* endSession: conversation.endSession(), whose onDisconnect sets the status,
\* then setTranscriptEvents([])
endSession ==
    /\ connectionStatus = "connected"
    /\ connectionStatus' = "disconnected"
    /\ UNCHANGED <<pipelineVars, sessionSeq>>
    /\ UNCHANGED <<codecVars, serverVars>>

\* ------------------------------------------------------------------------
\* IntentGate: debounce
\* ------------------------------------------------------------------------

\* handleFinalTranscript without the clearTimeout of the pending handle
handleFinalTranscriptNoClear(text) ==
    /\ timerSeq' = timerSeq + 1
    /\ timers' = timers \cup {[id |-> timerSeq + 1, text |-> text]}
    /\ intentDebounceRef' = timerSeq + 1
    /\ burst' = Append(burst, text)

\* handleFinalTranscript(text): clearTimeout of the pending handle, then a new timer
handleFinalTranscript(text) ==
    LET cleared == IF intentDebounceRef # 0
                   THEN {t \in timers : t.id # intentDebounceRef}
                   ELSE timers
    IN /\ timerSeq' = timerSeq + 1
       /\ timers' = cleared \cup {[id |-> timerSeq + 1, text |-> text]}
       /\ intentDebounceRef' = timerSeq + 1
       /\ burst' = Append(burst, text)

\* onMessage({message, role}) of useConversationTranscription, which the SDK
\* calls for the messages of a connected conversation
onMessage(role, text) ==
    /\ connectionStatus = "connected"
    /\ eventIdCounter < MaxFragments
    /\ eventIdCounter' = eventIdCounter + 1
    /\ IF role = "user"
       THEN handleFinalTranscript(text)
       ELSE UNCHANGED <<timerSeq, timers, intentDebounceRef, burst>>
    /\ UNCHANGED <<detectedIntents, tickets, isGeneratingMockup,
                   intentIdCounter, ticketIdCounter, intentCalls, mockupCalls,
                   exportCalls, exportSeq>>
    /\ UNCHANGED <<connectionStatus, sessionSeq, failedFragment, staleResult>>
    /\ UNCHANGED <<codecVars, serverVars>>

\* the setTimeout callback runs up to `await detectIntent(text)`
intentDebounceFire(t) ==
    /\ t \in timers
    /\ timers' = timers \ {t}
    /\ intentCalls' = intentCalls \cup {[id |-> t.id, text |-> t.text]}
    /\ burst' = IF timers' = {} THEN <<>> ELSE burst
    /\ UNCHANGED <<detectedIntents, tickets, isGeneratingMockup,
                   intentDebounceRef, intentIdCounter, ticketIdCounter, eventIdCounter,
                   timerSeq, mockupCalls, exportCalls, exportSeq>>
    /\ UNCHANGED <<connectionStatus, sessionSeq, failedFragment, staleResult>>
    /\ UNCHANGED <<codecVars, serverVars>>

\* ------------------------------------------------------------------------
\* IntentGate: classification result
\* ------------------------------------------------------------------------
IntentThreshold == 60
TicketThreshold == 70

\* the first threshold taken inclusively
SurfacesIntentAtThreshold(result) ==
    result.isUiRequest /\ result.confidence >= IntentThreshold

\* result.isUiRequest && result.confidence > 0.6
SurfacesIntent(result) == result.isUiRequest /\ result.confidence > IntentThreshold

\* the second threshold taken inclusively
CreatesTicketAtThreshold(result) ==
    SurfacesIntent(result) /\ result.confidence >= TicketThreshold

\* result.confidence > 0.7 (inside the branch above)
CreatesTicket(result) == SurfacesIntent(result) /\ result.confidence > TicketThreshold

\* const newIntent: DetectedIntent = { ...result, id, transcriptText }
NewIntent(result, text) ==
    [id |-> intentIdCounter + 1,
     transcriptText |-> text,
     isUiRequest |-> result.isUiRequest,
     confidence |-> result.confidence,
     component |-> result.component]

\* a ticket numbered by its place in the list
NewTicketReusesId(intent) ==
    [id |-> Len(tickets) + 1,
     intent |-> intent,
     mockupVariants |-> <<>>,
     selectedVariantIndex |-> None,
     status |-> "generating",
     linearUrl |-> Undefined]

\* const newTicket: Ticket = { id, intent, mockupVariants: [], ... }
NewTicket(intent) ==
    [id |-> ticketIdCounter + 1,
     intent |-> intent,
     mockupVariants |-> <<>>,
     selectedVariantIndex |-> None,
     status |-> "generating",
     linearUrl |-> Undefined]

\* continuation of `await detectIntent(text)` up to `await generateMockup(..)`
detectIntentResolved(call, result) ==
    /\ call \in intentCalls
    /\ SurfacesIntent(result) => intentIdCounter < MaxIntents
    /\ CreatesTicket(result) => ticketIdCounter < MaxTickets
    /\ intentCalls' = intentCalls \ {call}
    /\ IF SurfacesIntent(result)
       THEN /\ intentIdCounter' = intentIdCounter + 1
            /\ detectedIntents' = Append(detectedIntents, NewIntent(result, call.text))
            /\ IF CreatesTicket(result)
               THEN /\ ticketIdCounter' = ticketIdCounter + 1
                    /\ tickets' = Append(tickets, NewTicket(NewIntent(result, call.text)))
                    /\ isGeneratingMockup' = TRUE
                    /\ mockupCalls' = mockupCalls \cup {ticketIdCounter + 1}
               ELSE UNCHANGED <<ticketIdCounter, tickets, isGeneratingMockup, mockupCalls>>
       ELSE UNCHANGED <<intentIdCounter, detectedIntents, ticketIdCounter, tickets,
                        isGeneratingMockup, mockupCalls>>
    /\ UNCHANGED <<intentDebounceRef, eventIdCounter, timers, timerSeq,
                   exportCalls, exportSeq, burst>>
    /\ UNCHANGED <<connectionStatus, sessionSeq, failedFragment, staleResult>>
    /\ UNCHANGED <<codecVars, serverVars>>

\* a failure that also cancels the pending debounce timer
detectIntentRejectedCancelsTimer(call) ==
    /\ call \in intentCalls
    /\ intentCalls' = intentCalls \ {call}
    /\ timers' = {}
    /\ intentDebounceRef' = 0
    /\ UNCHANGED <<detectedIntents, tickets, isGeneratingMockup,
                   intentIdCounter, ticketIdCounter, eventIdCounter,
                   timerSeq, mockupCalls, exportCalls, exportSeq, burst>>
    /\ failedFragment' = call.text
    /\ UNCHANGED <<connectionStatus, sessionSeq, staleResult>>
    /\ UNCHANGED <<codecVars, serverVars>>

\* detectIntent throws: console.error only
detectIntentRejected(call) ==
    /\ call \in intentCalls
    /\ intentCalls' = intentCalls \ {call}
    /\ UNCHANGED <<detectedIntents, tickets, isGeneratingMockup,
                   intentDebounceRef, intentIdCounter, ticketIdCounter, eventIdCounter,
                   timers, timerSeq, mockupCalls, exportCalls, exportSeq, burst>>
    /\ failedFragment' = call.text
    /\ UNCHANGED <<connectionStatus, sessionSeq, staleResult>>
    /\ UNCHANGED <<codecVars, serverVars>>

\* ------------------------------------------------------------------------
\* TicketStateMachine: mockup generation results
\* ------------------------------------------------------------------------

\* the success update that marks the ticket ready without its variants
ApplyMockupStatusOnly(t, variants) ==
    [t EXCEPT !.selectedVariantIndex = Some(0), !.status = "ready"]

\* the success update that leaves selectedVariantIndex as it was
ApplyMockupKeepsSelection(t, variants) ==
    [t EXCEPT !.mockupVariants = variants, !.status = "ready"]

\* { ...t, mockupVariants: mockupResult.variants, selectedVariantIndex: 0, status: 'ready' }
ApplyMockup(t, variants) ==
    [t EXCEPT !.mockupVariants = variants,
              !.selectedVariantIndex = Some(0),
              !.status = "ready"]

\* the failure update that leaves the status as it was
ApplyMockupFailureKeepsStatus(t) == t

\* { ...t, status: 'pending' }
ApplyMockupFailure(t) == [t EXCEPT !.status = "pending"]

\* continuation of `await generateMockup(..)`, then the finally block
generateMockupResolved(id, variants) ==
    /\ id \in mockupCalls
    /\ mockupCalls' = mockupCalls \ {id}
    /\ tickets' = MapTicket(tickets, id, [i \in Indexes(tickets) |-> ApplyMockup(tickets[i], variants)])
    /\ isGeneratingMockup' = FALSE
    /\ UNCHANGED <<detectedIntents, intentDebounceRef, intentIdCounter,
                   ticketIdCounter, eventIdCounter, timers, timerSeq, intentCalls,
                   exportCalls, exportSeq, burst>>
    /\ staleResult' = (staleResult \/ id \notin IdsOf(tickets))
    /\ UNCHANGED <<connectionStatus, sessionSeq, failedFragment>>
    /\ UNCHANGED <<codecVars, serverVars>>

\* a failure that puts a removed ticket back into the list, as pending
generateMockupRejectedUpserts(id) ==
    /\ id \in mockupCalls
    /\ mockupCalls' = mockupCalls \ {id}
    /\ tickets' = IF id \in IdsOf(tickets)
                  THEN MapTicket(tickets, id,
                           [i \in Indexes(tickets) |-> ApplyMockupFailure(tickets[i])])
                  ELSE Append(tickets,
                           [id |-> id,
                            intent |-> detectedIntents[Len(detectedIntents)],
                            mockupVariants |-> <<>>,
                            selectedVariantIndex |-> None,
                            status |-> "pending",
                            linearUrl |-> Undefined])
    /\ isGeneratingMockup' = FALSE
    /\ UNCHANGED <<detectedIntents, intentDebounceRef, intentIdCounter,
                   ticketIdCounter, eventIdCounter, timers, timerSeq, intentCalls,
                   exportCalls, exportSeq, burst>>
    /\ staleResult' = (staleResult \/ id \notin IdsOf(tickets))
    /\ UNCHANGED <<connectionStatus, sessionSeq, failedFragment>>
    /\ UNCHANGED <<codecVars, serverVars>>

\* a failure that takes the ticket out of the list
generateMockupRejectedDropsTicket(id) ==
    /\ id \in mockupCalls
    /\ mockupCalls' = mockupCalls \ {id}
    /\ tickets' = FilterOut(tickets, id)
    /\ isGeneratingMockup' = FALSE
    /\ UNCHANGED <<detectedIntents, intentDebounceRef, intentIdCounter,
                   ticketIdCounter, eventIdCounter, timers, timerSeq, intentCalls,
                   exportCalls, exportSeq, burst>>
    /\ staleResult' = (staleResult \/ id \notin IdsOf(tickets))
    /\ UNCHANGED <<connectionStatus, sessionSeq, failedFragment>>
    /\ UNCHANGED <<codecVars, serverVars>>

\* generateMockup throws: the catch block, then the finally block
generateMockupRejected(id) ==
    /\ id \in mockupCalls
    /\ mockupCalls' = mockupCalls \ {id}
    /\ tickets' = MapTicket(tickets, id, [i \in Indexes(tickets) |-> ApplyMockupFailure(tickets[i])])
    /\ isGeneratingMockup' = FALSE
    /\ UNCHANGED <<detectedIntents, intentDebounceRef, intentIdCounter,
                   ticketIdCounter, eventIdCounter, timers, timerSeq, intentCalls,
                   exportCalls, exportSeq, burst>>
    /\ staleResult' = (staleResult \/ id \notin IdsOf(tickets))
    /\ UNCHANGED <<connectionStatus, sessionSeq, failedFragment>>
    /\ UNCHANGED <<codecVars, serverVars>>

\* ------------------------------------------------------------------------
\* Ticket actions of the UI
\* ------------------------------------------------------------------------
\* the valid indexes and one below them; 1 is out of range for a single variant
IndexInputs == (0 - 1)..(MaxVariants - 1)

handleRemoveTicket(ticketId) ==
    /\ tickets' = FilterOut(tickets, ticketId)
    /\ UNCHANGED <<detectedIntents, isGeneratingMockup, intentDebounceRef,
                   intentIdCounter, ticketIdCounter, eventIdCounter, timers, timerSeq,
                   intentCalls, mockupCalls, exportCalls, exportSeq, burst>>
    /\ UNCHANGED <<connectionStatus, sessionSeq, failedFragment, staleResult>>
    /\ UNCHANGED <<codecVars, serverVars>>

\* selecting a variant also marks the ticket ready
SelectVariantMarksReady(t, variantIndex) ==
    [t EXCEPT !.selectedVariantIndex = Some(variantIndex), !.status = "ready"]

\* { ...t, selectedVariantIndex: variantIndex }
SelectVariant(t, variantIndex) == [t EXCEPT !.selectedVariantIndex = Some(variantIndex)]

handleSelectMockupVariant(ticketId, variantIndex) ==
    /\ tickets' = MapTicket(tickets, ticketId,
                   [i \in Indexes(tickets) |-> SelectVariant(tickets[i], variantIndex)])
    /\ UNCHANGED <<detectedIntents, isGeneratingMockup,
                   intentDebounceRef, intentIdCounter, ticketIdCounter, eventIdCounter,
                   timers, timerSeq, intentCalls, mockupCalls, exportCalls, exportSeq,
                   burst>>
    /\ UNCHANGED <<connectionStatus, sessionSeq, failedFragment, staleResult>>
    /\ UNCHANGED <<codecVars, serverVars>>

\* ------------------------------------------------------------------------
\* Export
\* ------------------------------------------------------------------------

\* ticket.selectedVariantIndex ?? 0
SelectedOrZero(t) ==
    IF t.selectedVariantIndex = None THEN 0 ELSE t.selectedVariantIndex[1]

\* ticket.mockupVariants[ticket.selectedVariantIndex ?? 0]; None when undefined
SelectedVariant(t) ==
    IF SelectedOrZero(t) + 1 \in 1..Len(t.mockupVariants)
    THEN Some(t.mockupVariants[SelectedOrZero(t) + 1])
    ELSE None

\* the early returns without the test of the status
CanExportAnyStatus(ticketId) ==
    /\ FindTicket(tickets, ticketId) # None
    /\ SelectedVariant(FindTicket(tickets, ticketId)[1]) # None

\* the two early returns of handleExportTicket
CanExport(ticketId) ==
    /\ FindTicket(tickets, ticketId) # None
    /\ FindTicket(tickets, ticketId)[1].status = "ready"
    /\ SelectedVariant(FindTicket(tickets, ticketId)[1]) # None

\* an export button that does nothing while a call for the ticket is in flight
handleExportTicketGuarded(ticketId) ==
    /\ exportSeq < MaxExports
    /\ IF CanExport(ticketId) /\ exportCalls[ticketId] = 0
       THEN /\ exportSeq' = exportSeq + 1
            /\ exportCalls' = [exportCalls EXCEPT ![ticketId] = @ + 1]
       ELSE UNCHANGED <<exportSeq, exportCalls>>
    /\ UNCHANGED <<detectedIntents, tickets, isGeneratingMockup,
                   intentDebounceRef, intentIdCounter, ticketIdCounter, eventIdCounter,
                   timers, timerSeq, intentCalls, mockupCalls, burst>>
    /\ UNCHANGED <<connectionStatus, sessionSeq, failedFragment, staleResult>>
    /\ UNCHANGED <<codecVars, serverVars>>

\* handleExportTicket up to `await exportToLinear(..)`
handleExportTicket(ticketId) ==
    /\ exportSeq < MaxExports
    /\ IF CanExport(ticketId)
       THEN /\ exportSeq' = exportSeq + 1
            /\ exportCalls' = [exportCalls EXCEPT ![ticketId] = @ + 1]
       ELSE UNCHANGED <<exportSeq, exportCalls>>
    /\ UNCHANGED <<detectedIntents, tickets, isGeneratingMockup,
                   intentDebounceRef, intentIdCounter, ticketIdCounter, eventIdCounter,
                   timers, timerSeq, intentCalls, mockupCalls, burst>>
    /\ UNCHANGED <<connectionStatus, sessionSeq, failedFragment, staleResult>>
    /\ UNCHANGED <<codecVars, serverVars>>

\* the export result applied without the url
MarkExportedNoUrl(t, url) == [t EXCEPT !.status = "exported"]

\* { ...t, status: 'exported', linearUrl: result.url }
MarkExported(t, url) == [t EXCEPT !.status = "exported", !.linearUrl = url]

\* continuation of `await exportToLinear(..)`
exportToLinearResolved(ticketId, url) ==
    /\ exportCalls[ticketId] > 0
    /\ exportCalls' = [exportCalls EXCEPT ![ticketId] = @ - 1]
    /\ tickets' = MapTicket(tickets, ticketId,
                   [i \in Indexes(tickets) |-> MarkExported(tickets[i], url)])
    /\ UNCHANGED <<detectedIntents, isGeneratingMockup,
                   intentDebounceRef, intentIdCounter, ticketIdCounter, eventIdCounter,
                   timers, timerSeq, intentCalls, mockupCalls, exportSeq, burst>>
    /\ UNCHANGED <<connectionStatus, sessionSeq, failedFragment, staleResult>>
    /\ UNCHANGED <<codecVars, serverVars>>

\* a failed export that sends the ticket back to 'pending'
exportToLinearRejectedMarksPending(ticketId) ==
    /\ exportCalls[ticketId] > 0
    /\ exportCalls' = [exportCalls EXCEPT ![ticketId] = @ - 1]
    /\ tickets' = MapTicket(tickets, ticketId,
                   [i \in Indexes(tickets) |-> ApplyMockupFailure(tickets[i])])
    /\ UNCHANGED <<detectedIntents, isGeneratingMockup,
                   intentDebounceRef, intentIdCounter, ticketIdCounter, eventIdCounter,
                   timers, timerSeq, intentCalls, mockupCalls, exportSeq, burst>>
    /\ UNCHANGED <<connectionStatus, sessionSeq, failedFragment, staleResult>>
    /\ UNCHANGED <<codecVars, serverVars>>

\* exportToLinear throws: console.error only
exportToLinearRejected(ticketId) ==
    /\ exportCalls[ticketId] > 0
    /\ exportCalls' = [exportCalls EXCEPT ![ticketId] = @ - 1]
    /\ UNCHANGED <<detectedIntents, tickets, isGeneratingMockup,
                   intentDebounceRef, intentIdCounter, ticketIdCounter, eventIdCounter,
                   timers, timerSeq, intentCalls, mockupCalls, exportSeq, burst>>
    /\ UNCHANGED <<connectionStatus, sessionSeq, failedFragment, staleResult>>
    /\ UNCHANGED <<codecVars, serverVars>>

\* ------------------------------------------------------------------------
\* Specification of the client pipeline
\* ------------------------------------------------------------------------
\* one call, from its start on
Next ==
    \/ startSession
    \/ onConnect
    \/ \E role \in Roles, text \in Texts(eventIdCounter + 1) : onMessage(role, text)
    \/ \E t \in timers : intentDebounceFire(t)
    \/ \E call \in intentCalls, result \in IntentResults : detectIntentResolved(call, result)
    \/ \E call \in intentCalls : detectIntentRejected(call)
    \/ \E id \in mockupCalls : \E variants \in VariantLists(id) : generateMockupResolved(id, variants)
    \/ \E id \in mockupCalls : generateMockupRejected(id)
    \/ \E id \in TicketIds : handleRemoveTicket(id)
    \/ \E id \in TicketIds, index \in IndexInputs : handleSelectMockupVariant(id, index)
    \/ \E id \in TicketIds : handleExportTicket(id)
    \/ \E id \in TicketIds : exportToLinearResolved(id, IssueUrl(id))
    \/ \E id \in TicketIds : exportToLinearRejected(id)

Spec == Init /\ [][Next]_vars

\* the pipeline over calls that are started and ended, without the
\* variant and export buttons
NextCall ==
    \/ startSession
    \/ onConnect
    \/ startSessionFailed
    \/ endSession
    \/ \E role \in Roles, text \in Texts(eventIdCounter + 1) : onMessage(role, text)
    \/ \E t \in timers : intentDebounceFire(t)
    \/ \E call \in intentCalls, result \in IntentResults : detectIntentResolved(call, result)
    \/ \E call \in intentCalls : detectIntentRejected(call)
    \/ \E id \in mockupCalls : \E variants \in VariantLists(id) : generateMockupResolved(id, variants)
    \/ \E id \in mockupCalls : generateMockupRejected(id)
    \/ \E id \in TicketIds : handleRemoveTicket(id)

SpecCall == Init /\ [][NextCall]_vars

\* generateMockup of ticket id returns or throws
generateMockupSettled(id) ==
    \/ \E variants \in VariantLists(id) : generateMockupResolved(id, variants)
    \/ generateMockupRejected(id)

\* every generateMockup call eventually returns or throws
SpecCallFair == SpecCall /\ \A id \in TicketIds : WF_vars(generateMockupSettled(id))

\* ------------------------------------------------------------------------
\* SignedTokenCodec: strings are sequences of characters
\* ------------------------------------------------------------------------
ValueChars == {"a", "b", "."}
HexDigits == <<"0", "1", "2", "3", "4", "5", "6", "7",
               "8", "9", "a", "b", "c", "d", "e", "f">>
\* characters an altered signature may contain; "U+00E9" is e-acute, two bytes in UTF-8
TamperChars == {HexDigits[i] : i \in 1..16} \cup {".", "g", "U+00E9"}
Secrets == {"s1", "s2"}
NoSecret == ""

Strings(chars, n) == UNION {[1..k -> chars] : k \in 0..n}
Values == Strings(ValueChars, MaxLen)

RECURSIVE Pow(_, _)
Pow(b, n) == IF n = 0 THEN 1 ELSE b * Pow(b, n - 1)

\* Buffer.from(c, "utf8") of one character
Utf8(c) ==
    CASE c = "U+00E9" -> <<195, 169>>
      [] c = "." -> <<46>>
      [] c = "g" -> <<103>>
      [] c \in {HexDigits[i] : i \in 1..10} ->
            <<47 + (CHOOSE i \in 1..10 : HexDigits[i] = c)>>
      [] OTHER -> <<86 + (CHOOSE i \in 11..16 : HexDigits[i] = c)>>

\* Buffer.from(str, "utf8")
RECURSIVE Bytes(_)
Bytes(str) == IF str = <<>> THEN <<>> ELSE Utf8(Head(str)) \o Bytes(Tail(str))

\* the key schedule of the stand-in for HMAC-SHA256
SecretSeed(secret) == IF secret = "s1" THEN 7 ELSE 11

\* stand-in for createHmac("sha256", secret).update(value): a keyed hash of
\* the bytes of value into 4 * DigestLen bits
RECURSIVE Hmac(_, _)
Hmac(h, bytes) ==
    IF bytes = <<>> THEN h
    ELSE Hmac((h * 31 + Head(bytes)) % Pow(16, DigestLen), Tail(bytes))

\* digest("hex"): DigestLen lower-case hexadecimal digits
ToHex(n) == [i \in 1..DigestLen |-> HexDigits[((n \div Pow(16, DigestLen - i)) % 16) + 1]]

\* sign(value), for a configured secret
sign(value) == ToHex(Hmac(SecretSeed(codecSecret), Bytes(value)))

\* createSignedValue(value): `${value}.${signature}`
createSignedValue(value) == value \o <<".">> \o sign(value)

\* str.split(".")
RECURSIVE Split(_)
Split(str) ==
    IF \A i \in 1..Len(str) : str[i] # "."
    THEN <<str>>
    ELSE LET i == CHOOSE k \in 1..Len(str) :
                     str[k] = "." /\ \A j \in 1..(k - 1) : str[j] # "."
         IN <<SubSeq(str, 1, i - 1)>> \o Split(SubSeq(str, i + 1, Len(str)))

\* crypto.timingSafeEqual(a, b): throws when the byte lengths differ
timingSafeEqual(a, b) ==
    IF Len(a) # Len(b) THEN "throw" ELSE IF a = b THEN "true" ELSE "false"

Null == [kind |-> "null", value |-> <<>>]
Threw == [kind |-> "throw", value |-> <<>>]
Value(v) == [kind |-> "value", value |-> v]

\* verifySignedValue that accepts every signature of the right length
verifySignedValueLengthOnly(signedValue) ==
    LET parts == Split(signedValue)
    IN IF Len(parts) # 2 THEN Null
       ELSE IF parts[1] = <<>> \/ parts[2] = <<>> THEN Null
       ELSE IF codecSecret = NoSecret THEN Threw
       ELSE IF Len(parts[2]) # Len(sign(parts[1])) THEN Null
       ELSE Value(parts[1])

\* verifySignedValue without the check for empty parts
verifySignedValueNoEmptyCheck(signedValue) ==
    LET parts == Split(signedValue)
    IN IF Len(parts) # 2 THEN Null
       ELSE IF codecSecret = NoSecret THEN Threw
       ELSE IF Len(parts[2]) # Len(sign(parts[1])) THEN Null
       ELSE IF timingSafeEqual(Bytes(parts[2]), Bytes(sign(parts[1]))) = "true"
            THEN Value(parts[1])
            ELSE Null

\* verifySignedValue(signedValue)
verifySignedValue(signedValue) ==
    LET parts == Split(signedValue)
    IN IF Len(parts) # 2 THEN Null
       ELSE IF parts[1] = <<>> \/ parts[2] = <<>> THEN Null
       ELSE IF codecSecret = NoSecret THEN Threw
       ELSE IF Len(parts[2]) # Len(sign(parts[1])) THEN Null
       ELSE IF timingSafeEqual(Bytes(parts[2]), Bytes(sign(parts[1]))) = "true"
            THEN Value(parts[1])
            ELSE Null

\* a call of createSignedValue(codecValue); sign throws without a secret
createSignedValueCall ==
    /\ codecPc = "start"
    /\ IF codecSecret = NoSecret
       THEN /\ codecPc' = "done"
            /\ codecResult' = Threw
            /\ UNCHANGED codecBlob
       ELSE /\ codecPc' = "signed"
            /\ codecBlob' = createSignedValue(codecValue)
            /\ UNCHANGED codecResult
    /\ UNCHANGED <<codecSecret, codecValue, codecTampered>>
    /\ UNCHANGED <<clientVars, serverVars>>

\* the holder of the cookie replaces one character of the signature part
tamperSignature(i, c) ==
    /\ codecPc = "signed"
    /\ ~codecTampered
    /\ i \in (Len(codecValue) + 2)..Len(codecBlob)
    /\ c # codecBlob[i]
    /\ codecBlob' = [codecBlob EXCEPT ![i] = c]
    /\ codecTampered' = TRUE
    /\ UNCHANGED <<codecSecret, codecValue, codecResult, codecPc>>
    /\ UNCHANGED <<clientVars, serverVars>>

\* characters of a cookie value that the server did not create
ForgedChars == {"a", ".", "0"}
ForgedBlobs == Strings(ForgedChars, MaxLen + DigestLen)

\* getCookie hands over a value of the client's choosing
receiveForgedCookie(blob) ==
    /\ codecPc = "start"
    /\ codecValue = <<>>
    /\ codecBlob' = blob
    /\ codecPc' = "received"
    /\ UNCHANGED <<codecSecret, codecValue, codecTampered, codecResult>>
    /\ UNCHANGED <<clientVars, serverVars>>

\* a call of verifySignedValue(codecBlob)
verifySignedValueCall ==
    /\ codecPc \in {"signed", "received"}
    /\ codecPc' = IF codecPc = "signed" THEN "done" ELSE "checked"
    /\ codecResult' = verifySignedValue(codecBlob)
    /\ UNCHANGED <<codecSecret, codecValue, codecBlob, codecTampered>>
    /\ UNCHANGED <<clientVars, serverVars>>

CodecInit ==
    /\ codecSecret \in Secrets \cup {NoSecret}
    /\ codecValue \in Values
    /\ codecBlob = <<>>
    /\ codecTampered = FALSE
    /\ codecResult = Null
    /\ codecPc = "start"

InitCodec == ClientInit /\ CodecInit /\ ServerIdle

NextCodec ==
    \/ createSignedValueCall
    \/ \E i \in 1..(MaxLen + DigestLen + 2), c \in TamperChars : tamperSignature(i, c)
    \/ \E blob \in ForgedBlobs : receiveForgedCookie(blob)
    \/ verifySignedValueCall

SpecCodec == InitCodec /\ [][NextCodec]_vars

\* ------------------------------------------------------------------------
\* OAuth and export routes of the server, and the browser's cookie jar
\* ------------------------------------------------------------------------
\* the n-th value of crypto.randomUUID(): hexadecimal, never contains "."
Nonce(n) == <<HexDigits[10 + n]>>
\* a state value that the server never issued
Unissued == <<"0">>
\* c.req.query("code") of the provider's redirect
Code == <<"c">>
\* c.req.query("error") of the provider's redirect
ProviderErrors == {"access_denied"}
\* access_token values of the provider's token response
Tokens == {<<"a">>, <<"a", ".", "b">>}
\* a cookie value that the client wrote itself
ForgedCookie == <<"a", ".", "g">>

\* Set-Cookie of a response for one cookie name
Keep == [op |-> "keep", blob |-> <<>>]
Delete == [op |-> "delete", blob |-> <<>>]
Set(blob) == [op |-> "set", blob |-> blob]

\* a browser that keeps the value it holds when a cookie is set again
ApplyCookieKeepsFirst(cookie, setCookie) ==
    CASE setCookie.op = "keep" -> cookie
      [] setCookie.op = "delete" -> None
      [] OTHER -> IF cookie = None THEN Some(setCookie.blob) ELSE cookie

\* the browser applies a Set-Cookie to the cookie it holds
ApplyCookie(cookie, setCookie) ==
    CASE setCookie.op = "keep" -> cookie
      [] setCookie.op = "delete" -> None
      [] OTHER -> Some(setCookie.blob)

Response(status, error, body, setState, setSession) ==
    [status |-> status, error |-> error, body |-> body,
     setState |-> setState, setSession |-> setSession]
NoResponse == Response(0, None, "", Keep, Keep)

\* c.redirect(`${publicOrigin}/?error=...`), or c.redirect(`${publicOrigin}/`) for None
Redirect(error, setState, setSession) == Response(302, error, "", setState, setSession)
\* c.json(body, status)
Json(status, error, body, setSession) == Response(status, error, body, Keep, setSession)

\* a request as it reaches its handler; a parameter that is absent or empty is
\* None (both are falsy in the handlers' tests).  History: replay (the
\* browser sent its own cookies and a state whose validation it had seen
\* succeed), afterLogout (the browser sent its own cookies after a logout and
\* before a later connect), exchange (how far the token exchange of this
\* handling got), trackerCalls (calls made to the issue tracker), teams (the
\* nodes that linear.teams() returned) and issueTeam (the teamId that
\* linear.createIssue() was called with) and afterRejection (the browser sent
\* its own state cookie after applying the response of a callback whose state
\* was wrong or missing).
Request(route, cookie, code, state, error, teamId, replay, afterLogout) ==
    [route |-> route, cookie |-> cookie, code |-> code, state |-> state,
     error |-> error, teamId |-> teamId, replay |-> replay,
     afterLogout |-> afterLogout, afterRejection |-> FALSE, pc |-> "sent",
     exchange |-> "none",
     trackerCalls |-> 0, teams |-> None, issueTeam |-> None, resp |-> NoResponse]

Respond(r, resp) == [r EXCEPT !.pc = "response", !.resp = resp]

SecretRequired == "SESSION_SECRET environment variable is required"

\* getLinearAccessToken(c)
getLinearAccessTokenUnverified(cookie) ==
    IF cookie = None THEN Null ELSE Value(cookie[1])

getLinearAccessToken(cookie) ==
    IF cookie = None THEN Null ELSE verifySignedValue(cookie[1])

\* setLinearAccessToken(c, token), for a configured secret
setLinearAccessToken(token) == Set(createSignedValue(token))

\* clearLinearAccessToken(c)
clearLinearAccessTokenKeepsCookie == Keep

clearLinearAccessToken == Delete

\* setOAuthState(c, state), for a configured secret
setOAuthState(state) == Set(createSignedValue(state))

\* getAndValidateOAuthState(c, providedState)
getAndValidateOAuthStateKeepsCookie(cookie, providedState) ==
    IF cookie = None THEN [result |-> "false", setState |-> Keep]
    ELSE LET state == verifySignedValue(cookie[1])
         IN IF state = Threw THEN [result |-> "throw", setState |-> Keep]
            ELSE IF state = Null \/ state.value # providedState
                 THEN [result |-> "false", setState |-> Keep]
                 ELSE [result |-> "true", setState |-> Keep]

getAndValidateOAuthStateDeletesOnMismatch(cookie, providedState) ==
    IF cookie = None THEN [result |-> "false", setState |-> Keep]
    ELSE LET state == verifySignedValue(cookie[1])
         IN IF state = Threw THEN [result |-> "throw", setState |-> Keep]
            ELSE IF state = Null \/ state.value # providedState
                 THEN [result |-> "false", setState |-> Delete]
                 ELSE [result |-> "true", setState |-> Delete]

getAndValidateOAuthStateNoCompare(cookie, providedState) ==
    IF cookie = None THEN [result |-> "false", setState |-> Keep]
    ELSE LET state == verifySignedValue(cookie[1])
         IN IF state = Threw THEN [result |-> "throw", setState |-> Keep]
            ELSE IF state = Null
                 THEN [result |-> "false", setState |-> Keep]
                 ELSE [result |-> "true", setState |-> Delete]

getAndValidateOAuthState(cookie, providedState) ==
    IF cookie = None THEN [result |-> "false", setState |-> Keep]
    ELSE LET state == verifySignedValue(cookie[1])
         IN IF state = Threw THEN [result |-> "throw", setState |-> Keep]
            ELSE IF state = Null \/ state.value # providedState
                 THEN [result |-> "false", setState |-> Keep]
                 ELSE [result |-> "true", setState |-> Delete]

\* GET /auth/linear/start with state = crypto.randomUUID()
startReceived(r, state) ==
    IF codecSecret = NoSecret
    THEN Respond(r, Json(500, Some(SecretRequired), "", Keep))
    ELSE Respond(r, Redirect(None, setOAuthState(state), Keep))

\* results of the fetch of exchangeCodeForToken: a 2xx response whose JSON
\* body has an access_token or none, another status, or a rejected fetch
ExchangeOutcomes ==
    [kind : {"2xx"}, access_token : {Some(t) : t \in Tokens} \cup {Undefined}]
        \cup [kind : {"non2xx", "reject"}, access_token : {Undefined}]

\* exchangeCodeForToken(code), from the fetch on
exchangeCodeForToken(outcome) ==
    CASE outcome.kind = "reject" ->
            [threw |-> TRUE, message |-> "fetch failed", access_token |-> Undefined]
      [] outcome.kind = "non2xx" ->
            [threw |-> TRUE, message |-> "Failed to exchange code for token",
             access_token |-> Undefined]
      [] OTHER ->
            [threw |-> FALSE, message |-> "", access_token |-> outcome.access_token]

\* GET /auth/linear/callback up to the await of exchangeCodeForToken; the
\* Set-Cookie headers already placed on the context travel in resp
AwaitExchange(r, setState) ==
    [r EXCEPT !.pc = "exchange", !.exchange = "pending",
              !.resp = Response(0, None, "", setState, Keep)]

callbackReceivedNoStateCheck(r) ==
    IF r.error # None THEN Respond(r, Redirect(r.error, Keep, Keep))
    ELSE IF r.code = None \/ r.state = None
    THEN Respond(r, Redirect(Some("missing_code_or_state"), Keep, Keep))
    ELSE LET valid == getAndValidateOAuthState(r.cookie, r.state[1])
         IN IF valid.result = "throw"
            THEN Respond(r, Redirect(Some(SecretRequired), Keep, Keep))
            ELSE AwaitExchange(r, valid.setState)

callbackReceivedValidatesFirst(r) ==
    IF r.code = None \/ r.state = None
    THEN IF r.error # None THEN Respond(r, Redirect(r.error, Keep, Keep))
         ELSE Respond(r, Redirect(Some("missing_code_or_state"), Keep, Keep))
    ELSE LET valid == getAndValidateOAuthState(r.cookie, r.state[1])
         IN IF valid.result = "throw"
            THEN Respond(r, Redirect(Some(SecretRequired), Keep, Keep))
            ELSE IF r.error # None
            THEN Respond(r, Redirect(r.error, valid.setState, Keep))
            ELSE IF valid.result = "false"
            THEN Respond(r, Redirect(Some("invalid_state"), Keep, Keep))
            ELSE AwaitExchange(r, valid.setState)

callbackReceived(r) ==
    IF r.error # None THEN Respond(r, Redirect(r.error, Keep, Keep))
    ELSE IF r.code = None \/ r.state = None
    THEN Respond(r, Redirect(Some("missing_code_or_state"), Keep, Keep))
    ELSE LET valid == getAndValidateOAuthState(r.cookie, r.state[1])
         IN IF valid.result = "throw"
            THEN Respond(r, Redirect(Some(SecretRequired), valid.setState, Keep))
            ELSE IF valid.result = "false"
            THEN Respond(r, Redirect(Some("invalid_state"), valid.setState, Keep))
            ELSE AwaitExchange(r, valid.setState)

\* GET /auth/linear/callback from the await of exchangeCodeForToken on, with
\* a catch block that takes the deletion of the state cookie back
callbackExchangedRestoresState(r, outcome) ==
    LET tokenResponse == exchangeCodeForToken(outcome)
        settled == [r EXCEPT !.exchange = outcome.kind]
    IN IF tokenResponse.threw
       THEN Respond(settled, Redirect(Some(tokenResponse.message), Keep, Keep))
       ELSE IF tokenResponse.access_token = Undefined
       THEN Respond(settled, Redirect(Some("TypeError"), Keep, Keep))
       ELSE IF codecSecret = NoSecret
       THEN Respond(settled, Redirect(Some(SecretRequired), Keep, Keep))
       ELSE Respond(settled, Redirect(None, r.resp.setState,
                                      setLinearAccessToken(tokenResponse.access_token[1])))

\* GET /auth/linear/callback from the await of exchangeCodeForToken on;
\* createSignedValue throws for an undefined token and without a secret
callbackExchanged(r, outcome) ==
    LET tokenResponse == exchangeCodeForToken(outcome)
        settled == [r EXCEPT !.exchange = outcome.kind]
    IN IF tokenResponse.threw
       THEN Respond(settled, Redirect(Some(tokenResponse.message), r.resp.setState, Keep))
       ELSE IF tokenResponse.access_token = Undefined
       THEN Respond(settled, Redirect(Some("TypeError"), r.resp.setState, Keep))
       ELSE IF codecSecret = NoSecret
       THEN Respond(settled, Redirect(Some(SecretRequired), r.resp.setState, Keep))
       ELSE Respond(settled, Redirect(None, r.resp.setState,
                                      setLinearAccessToken(tokenResponse.access_token[1])))

\* GET /auth/linear/status; a throw of the handler is hono's 500 response
statusReceived(r) ==
    LET token == getLinearAccessToken(r.cookie)
    IN IF token = Threw THEN Respond(r, Json(500, Some("Internal Server Error"), "", Keep))
       ELSE IF token = Null THEN Respond(r, Json(200, None, "disconnected", Keep))
       ELSE Respond(r, Json(200, None, "connected", Keep))

\* POST /auth/linear/logout
logoutReceived(r) == Respond(r, Json(200, None, "success", clearLinearAccessToken))

NotConnected == "Not connected to Linear. Please connect your Linear account first."

\* POST /linear/issues up to the first await of createLinearIssue:
\* linear.teams() without a teamId, linear.createIssue() with one
exportReceived(r) ==
    LET accessToken == getLinearAccessToken(r.cookie)
    IN IF accessToken = Threw THEN Respond(r, Json(500, Some(SecretRequired), "", Keep))
       ELSE IF accessToken = Null THEN Respond(r, Json(401, Some(NotConnected), "", Keep))
       ELSE IF r.teamId = None THEN [r EXCEPT !.pc = "teams", !.trackerCalls = 1]
       ELSE [r EXCEPT !.pc = "createIssue", !.trackerCalls = 1, !.issueTeam = r.teamId]

\* the teamId that a request may name
RequestTeam == "t1"
\* teams.nodes of linear.teams()
TeamLists == {<<>>, <<"t1">>, <<"t2", "t1">>}

\* the message of createLinearIssue's own test of params.accessToken
TokenRequired == "OAuth access token is required. Please connect your Linear account."
NoTeamResolved == "Unable to resolve Linear team ID. Please provide teamId in params."
\* messages of the errors that a call of the Linear SDK rejects with
UpstreamMessages == {"Authentication required, not authenticated",
                     "Upstream: OAuth access token is required"}

\* error.message.includes("OAuth access token is required"), over the
\* messages above
IncludesTokenRequired(message) ==
    message \in {TokenRequired, "Upstream: OAuth access token is required"}

\* the catch block of POST /linear/issues for an Error with this message
exportCaught(r, message) ==
    IF IncludesTokenRequired(message)
    THEN Respond(r, Json(401, Some(NotConnected), "", Keep))
    ELSE Respond(r, Json(500, Some(message), "", Keep))

\* results of `await linear.teams()`: a connection of nodes, or an Error
TeamsOutcomes ==
    [kind : {"nodes"}, nodes : TeamLists, message : {""}]
        \cup [kind : {"reject"}, nodes : {<<>>}, message : UpstreamMessages]
\* results of `await linear.createIssue(..)`: a payload with an issue, one
\* without success, or an Error
IssueOutcomes ==
    [kind : {"issue", "failed"}, message : {""}]
        \cup [kind : {"reject"}, message : UpstreamMessages]

\* the team taken from the end of the list
teamsSettledLastTeam(r, outcome) ==
    IF outcome.kind = "reject" THEN exportCaught(r, outcome.message)
    ELSE IF outcome.nodes = <<>>
    THEN exportCaught([r EXCEPT !.teams = Some(outcome.nodes)], NoTeamResolved)
    ELSE [r EXCEPT !.pc = "createIssue", !.trackerCalls = @ + 1,
                   !.teams = Some(outcome.nodes),
                   !.issueTeam = Some(outcome.nodes[Len(outcome.nodes)])]

\* createLinearIssue from the await of linear.teams() on: teams.nodes[0]
teamsSettled(r, outcome) ==
    IF outcome.kind = "reject" THEN exportCaught(r, outcome.message)
    ELSE IF outcome.nodes = <<>>
    THEN exportCaught([r EXCEPT !.teams = Some(outcome.nodes)], NoTeamResolved)
    ELSE [r EXCEPT !.pc = "createIssue", !.trackerCalls = @ + 1,
                   !.teams = Some(outcome.nodes),
                   !.issueTeam = Some(outcome.nodes[1])]

\* createLinearIssue from the await of linear.createIssue() on, with the
\* fetch of payload.issue
createIssueSettled(r, outcome) ==
    CASE outcome.kind = "issue" -> Respond(r, Json(200, None, "issue", Keep))
      [] outcome.kind = "failed" -> exportCaught(r, "Linear createIssue failed")
      [] OTHER -> exportCaught(r, outcome.message)

\* ------------------------------------------------------------------------
\* Steps of the browser and of the server
\* ------------------------------------------------------------------------
CanSend == BagCardinality(requests) < MaxInFlight
Send(r) == requests' = requests (+) SetToBag({r})
Replace(r, next) == requests' = (requests (-) SetToBag({r})) (+) SetToBag({next})
InFlight(route, pc) == {r \in BagToSet(requests) : r.route = route /\ r.pc = pc}

\* cookie values a request may carry under one name: the jar's, or a forged one
CookieChoices(cookie) == {cookie, Some(ForgedCookie)}
\* values that a request may carry in the linear_session cookie: those
\* above, or the value that the browser holds in its linear_oauth_state cookie
SessionCookieChoices == CookieChoices(jar.session) \cup {jar.state}
\* values of the state parameter: issued ones and one that was never issued
StateChoices == {None, Some(Unissued)} \cup {Some(Nonce(n)) : n \in 1..nonceCounter}

\* The server keeps nothing between requests, so what a handler answers
\* depends on the request alone: a request is sent and handled up to the
\* handler's first await in one step.

\* GET /auth/linear/start, while fewer than max values of randomUUID were used
startRoute(max) ==
    /\ CanSend
    /\ nonceCounter < max
    /\ nonceCounter' = nonceCounter + 1
    /\ Send(startReceived(Request("start", None, None, None, None, None, FALSE, FALSE),
                          Nonce(nonceCounter + 1)))
    /\ UNCHANGED <<jar, spent, loggedOut, rejectedState>>
    /\ UNCHANGED <<clientVars, codecVars>>

\* GET /auth/linear/callback
callbackRoute(cookie, code, state, error) ==
    /\ CanSend
    /\ Send(callbackReceived(
              [Request("callback", cookie, code, state, error, None,
                       /\ cookie = jar.state
                       /\ state \in {Some(s) : s \in spent},
                       FALSE)
                  EXCEPT !.afterRejection = (rejectedState # None /\ cookie = jar.state)]))
    /\ UNCHANGED <<jar, nonceCounter, spent, loggedOut, rejectedState>>
    /\ UNCHANGED <<clientVars, codecVars>>

\* GET /auth/linear/status
statusRoute(cookie) ==
    /\ CanSend
    /\ Send(statusReceived(Request("status", cookie, None, None, None, None, FALSE,
                                   loggedOut /\ cookie = jar.session)))
    /\ UNCHANGED <<jar, nonceCounter, spent, loggedOut, rejectedState>>
    /\ UNCHANGED <<clientVars, codecVars>>

\* POST /auth/linear/logout
logoutRoute ==
    /\ CanSend
    /\ Send(logoutReceived(Request("logout", None, None, None, None, None, FALSE, FALSE)))
    /\ UNCHANGED <<jar, nonceCounter, spent, loggedOut, rejectedState>>
    /\ UNCHANGED <<clientVars, codecVars>>

\* POST /linear/issues
exportRoute(cookie, teamId) ==
    /\ CanSend
    /\ Send(exportReceived(Request("export", cookie, None, None, None, teamId, FALSE,
                                   loggedOut /\ cookie = jar.session)))
    /\ UNCHANGED <<jar, nonceCounter, spent, loggedOut, rejectedState>>
    /\ UNCHANGED <<clientVars, codecVars>>

exchangeSettled(r, outcome) ==
    /\ Replace(r, callbackExchanged(r, outcome))
    /\ UNCHANGED <<jar, nonceCounter, spent, loggedOut, rejectedState>>
    /\ UNCHANGED <<clientVars, codecVars>>

teamsHandled(r, outcome) ==
    /\ Replace(r, teamsSettled(r, outcome))
    /\ UNCHANGED <<jar, nonceCounter, spent, loggedOut, rejectedState>>
    /\ UNCHANGED <<clientVars, codecVars>>

createIssueHandled(r, outcome) ==
    /\ Replace(r, createIssueSettled(r, outcome))
    /\ UNCHANGED <<jar, nonceCounter, spent, loggedOut, rejectedState>>
    /\ UNCHANGED <<clientVars, codecVars>>

\* the redirect of a callback whose state was wrong (invalid_state) or missing
StateRejected(r) ==
    /\ r.route = "callback"
    /\ \/ r.resp.error = Some("invalid_state")
       \/ r.resp.error = Some("missing_code_or_state") /\ r.state = None

\* the browser applies the Set-Cookie headers of a response
applyResponse(r) ==
    /\ jar' = [state |-> ApplyCookie(jar.state, r.resp.setState),
               session |-> ApplyCookie(jar.session, r.resp.setSession)]
    /\ requests' = requests (-) SetToBag({r})
    /\ spent' = IF r.route = "callback" /\ r.exchange # "none"
                THEN spent \cup {r.state[1]}
                ELSE spent
    /\ loggedOut' = IF r.route = "logout" THEN TRUE
                    ELSE IF r.resp.setSession.op = "set" THEN FALSE
                    ELSE loggedOut
    /\ UNCHANGED nonceCounter
    /\ UNCHANGED <<clientVars, codecVars>>

deliverResponse(r) ==
    /\ applyResponse(r)
    /\ UNCHANGED rejectedState

\* the same step, with the history of rejected callbacks recorded
deliverResponseRecorded(r) ==
    /\ applyResponse(r)
    /\ rejectedState' = IF StateRejected(r) THEN Some(jar.state)
                        ELSE IF r.resp.setState # Keep THEN None
                        ELSE rejectedState

ServerInit ==
    /\ codecSecret \in {"s1", NoSecret}
    /\ codecValue = <<>>
    /\ codecBlob = <<>>
    /\ codecTampered = FALSE
    /\ codecResult = Null
    /\ codecPc = "idle"
    /\ ServerIdle

InitServer == ClientInit /\ ServerInit

\* the OAuth routes under every request a client can make of them
NextOAuth ==
    \/ startRoute(MaxNonces)
    \/ \E cookie \in CookieChoices(jar.state), code \in {None, Some(Code)},
          state \in StateChoices, error \in {None} \cup {Some(e) : e \in ProviderErrors} :
            callbackRoute(cookie, code, state, error)
    \/ \E r \in InFlight("callback", "exchange"), outcome \in ExchangeOutcomes :
            exchangeSettled(r, outcome)
    \/ \E r \in BagToSet(requests) : r.pc = "response" /\ deliverResponse(r)

SpecOAuth == InitServer /\ [][NextOAuth]_vars

\* a browser that goes through the connect flow again: it navigates to start
\* once the previous start has been answered, and calls back with the state
\* cookie it holds and any state value; the provider answers the exchange
\* with a token or with a status that is not 2xx
ReconnectOutcomes ==
    {o \in ExchangeOutcomes : o.kind = "non2xx" \/ o.access_token = Some(<<"a">>)}
NextReconnect ==
    \/ InFlight("start", "response") = {} /\ startRoute(MaxConnects)
    \/ \E state \in StateChoices : callbackRoute(jar.state, Some(Code), state, None)
    \/ \E r \in InFlight("callback", "exchange"), outcome \in ReconnectOutcomes :
            exchangeSettled(r, outcome)
    \/ \E r \in BagToSet(requests) : r.pc = "response" /\ deliverResponseRecorded(r)

SpecReconnect == InitServer /\ [][NextReconnect]_vars

\* the state value that the provider's redirect carries: the one of the
\* authorization URL that the browser followed, held in its state cookie
RedirectStates ==
    {Some(Nonce(n)) : n \in {k \in 1..nonceCounter :
                                jar.state = Some(createSignedValue(Nonce(k)))}}

\* the session routes, with a browser that connects by following the
\* provider's redirect and a provider that answers the exchange with a token
NextSession ==
    \/ startRoute(MaxConnects)
    \/ \E state \in RedirectStates : callbackRoute(jar.state, Some(Code), state, None)
    \/ \E cookie \in SessionCookieChoices : statusRoute(cookie)
    \/ logoutRoute
    \/ \E cookie \in CookieChoices(jar.session), teamId \in {None, Some(RequestTeam)} :
            exportRoute(cookie, teamId)
    \/ \E r \in InFlight("callback", "exchange"), token \in Tokens :
            exchangeSettled(r, [kind |-> "2xx", access_token |-> Some(token)])
    \/ \E r \in InFlight("export", "teams"), outcome \in TeamsOutcomes : teamsHandled(r, outcome)
    \/ \E r \in InFlight("export", "createIssue"), outcome \in IssueOutcomes :
            createIssueHandled(r, outcome)
    \/ \E r \in BagToSet(requests) : r.pc = "response" /\ deliverResponse(r)

SpecSession == InitServer /\ [][NextSession]_vars

\* ------------------------------------------------------------------------
\* Properties of the codec
\* ------------------------------------------------------------------------

\* C9: for every value and configured secret,
\* verifySignedValue(createSignedValue(value)) returns value.
SignVerifyRoundTrip ==
    (codecPc = "done" /\ codecSecret # NoSecret /\ ~codecTampered)
        => codecResult = Value(codecValue)

\* C10: after one character of the signature part of createSignedValue(value)
\* was replaced by a different one, verifySignedValue returns null.
TamperedSignatureRejected ==
    (codecPc = "done" /\ codecSecret # NoSecret /\ codecTampered)
        => codecResult = Null

TamperedSameShapeRejected ==
    /\ codecPc = "done"
    /\ codecTampered
    /\ codecSecret # NoSecret
    /\ Split(codecBlob)[1] = codecValue
    /\ Len(Split(codecBlob)) = 2
    /\ Len(Bytes(Split(codecBlob)[2])) = DigestLen
    /\ codecResult = Null

\* C11: with a secret configured, verifySignedValue returns null, and does not
\* throw, for every blob that does not split on "." into exactly two
\* non-empty parts and for every blob whose signature part differs in length
\* from the recomputed digest.
MalformedBlobRejected ==
    (codecPc \in {"done", "checked"} /\ codecSecret # NoSecret)
        => LET parts == Split(codecBlob)
           IN (\/ Len(parts) # 2
               \/ \E k \in Indexes(parts) : parts[k] = <<>>
               \/ Len(parts[2]) # DigestLen)
                  => codecResult = Null

ForgedWrongLengthRejected ==
    /\ codecPc = "checked"
    /\ codecSecret # NoSecret
    /\ Len(Split(codecBlob)) = 2
    /\ Split(codecBlob)[1] # <<>>
    /\ Split(codecBlob)[2] # <<>>
    /\ Len(Split(codecBlob)[2]) # DigestLen
    /\ codecResult = Null

\* ------------------------------------------------------------------------
\* Properties of the OAuth and export routes
\* ------------------------------------------------------------------------
Callbacks == {r \in BagToSet(requests) : r.route = "callback"}
Responses(route) == InFlight(route, "response")

\* what verifySignedValue makes of the state cookie of callback r
StoredState(r) == IF r.cookie = None THEN Null ELSE verifySignedValue(r.cookie[1])
StateMatches(r) == r.state # None /\ StoredState(r) = Value(r.state[1])
StateMismatch(r) ==
    r.state # None /\ StoredState(r) # Threw /\ StoredState(r) # Value(r.state[1])

\* C12: a callback whose state validation succeeds deletes the state cookie
\* in its response, and a callback that the same browser makes with the same
\* state after applying that response fails validation.
ConsumedStateRejected ==
    \A r \in Callbacks :
        /\ r.exchange # "none" => r.resp.setState = Delete
        /\ r.replay =>
              /\ r.exchange = "none"
              /\ (r.error = None /\ r.code # None)
                    => r.resp.error = Some("invalid_state")

ReplayRejected ==
    \E r \in Callbacks :
        /\ r.replay
        /\ r.error = None
        /\ r.code # None
        /\ r.cookie = None
        /\ r.resp.error = Some("invalid_state")

\* C13: of the callbacks in flight together that carry the same state cookie
\* and the same state parameter, at most one passes state validation.
NonceAcceptedOnce ==
    \A r1, r2 \in Callbacks :
        (/\ r1.exchange # "none"
         /\ r2.exchange # "none"
         /\ r1.cookie = r2.cookie
         /\ r1.state = r2.state)
            => (r1 = r2 /\ CopiesIn(r1, requests) = 1)

\* C14: an export request whose access-token cookie is missing or fails
\* verification is answered 401 and calls neither linear.teams() nor
\* linear.createIssue().
UnauthenticatedExportRejected ==
    \A r \in BagToSet(requests) :
        (/\ r.route = "export"
         /\ (r.cookie = None \/ verifySignedValue(r.cookie[1]) = Null))
            => /\ r.pc = "response"
               /\ r.resp.status = 401
               /\ r.trackerCalls = 0

UnverifiableCookieExportRejected ==
    \E r \in Responses("export") :
        /\ r.cookie # None
        /\ codecSecret # NoSecret
        /\ verifySignedValue(r.cookie[1]) = Null
        /\ r.resp.status = 401
        /\ r.trackerCalls = 0

\* C15: a callback with a code and a state (and no provider error) whose
\* state differs from the verified value of its state cookie, or that has
\* no state cookie, redirects with error=invalid_state, writes no
\* access-token cookie and starts no token exchange.
MismatchedStateRejected ==
    \A r \in Callbacks :
        (r.error = None /\ r.code # None /\ StateMismatch(r))
            => /\ r.pc = "response"
               /\ r.resp.status = 302
               /\ r.resp.error = Some("invalid_state")
               /\ r.resp.setSession = Keep
               /\ r.exchange = "none"

UnissuedStateRejected ==
    \E r \in Callbacks :
        /\ r.error = None
        /\ r.code # None
        /\ r.state = Some(Unissued)
        /\ r.cookie = Some(createSignedValue(Nonce(1)))
        /\ r.resp.error = Some("invalid_state")
        /\ r.resp.setSession = Keep

\* C16: a callback response writes the access-token cookie only if the state
\* validation of that handling succeeded and its token exchange returned
\* 2xx; on every failure path it writes none, and every callback response
\* that writes none is a redirect with an error parameter.
CallbackFailure(r) ==
    \/ r.error # None
    \/ r.code = None
    \/ r.state = None
    \/ ~StateMatches(r)
    \/ r.exchange \in {"non2xx", "reject"}

TokenCookieOnlyOnSuccess ==
    \A r \in Callbacks :
        /\ r.pc # "response" => r.resp.setSession = Keep
        /\ r.pc = "response" =>
              /\ r.resp.status = 302
              /\ r.resp.setSession # Keep => (StateMatches(r) /\ r.exchange = "2xx")
              /\ CallbackFailure(r) => r.resp.setSession = Keep
              /\ r.resp.setSession = Keep => r.resp.error # None

CallbackSucceededAndFailed ==
    /\ \E r \in Responses("callback") :
          r.exchange = "2xx" /\ r.resp.setSession.op = "set" /\ r.resp.error = None
    /\ \E r \in Responses("callback") :
          r.exchange = "non2xx" /\ r.resp.setSession = Keep /\ r.resp.error # None

\* C17: the callback checks run in the order provider error, missing code or
\* state, state validation, token exchange, and the first that fails decides:
\* with a provider error the redirect carries that error, the state cookie is
\* kept and no exchange is started, whatever code and state are.
CallbackCheckOrder ==
    \A r \in Callbacks :
        /\ r.error # None =>
              /\ r.pc = "response"
              /\ r.resp.error = r.error
              /\ r.resp.setState = Keep
              /\ r.exchange = "none"
        /\ (r.error = None /\ (r.code = None \/ r.state = None)) =>
              /\ r.pc = "response"
              /\ r.resp.error = Some("missing_code_or_state")
              /\ r.resp.setState = Keep
              /\ r.exchange = "none"
        /\ (r.error = None /\ r.code # None /\ StateMismatch(r)) =>
              /\ r.pc = "response"
              /\ r.resp.error = Some("invalid_state")
              /\ r.exchange = "none"
        /\ (r.error = None /\ r.code # None /\ StateMatches(r)) =>
              r.exchange # "none"

ProviderErrorWithValidState ==
    \E r \in Responses("callback") :
        /\ r.error # None
        /\ r.code # None
        /\ StateMatches(r)
        /\ r.resp.error = r.error
        /\ r.resp.setState = Keep

\* C18: after a connect whose exchange returned the access token tok, the
\* access-token cookie is set, and a status request that carries that cookie
\* reports connected, for every tok.
ConnectedAfterCallback ==
    /\ \A r \in Responses("callback") :
          r.exchange = "2xx" => r.resp.setSession.op = "set"
    /\ \A r \in Responses("status"), tok \in Tokens :
          (codecSecret # NoSecret /\ r.cookie = Some(createSignedValue(tok)))
              => r.resp.body = "connected"

\* C19: a status request that the browser makes after its logout and before
\* a later connect reports not connected, and such an export request is
\* answered 401 without a call to the issue tracker.
LoggedOutStaysDisconnected ==
    \A r \in BagToSet(requests) :
        r.afterLogout =>
            /\ r.route = "status" => (r.pc = "response" /\ r.resp.body = "disconnected")
            /\ r.route = "export" =>
                  /\ r.pc = "response"
                  /\ r.resp.status = 401
                  /\ r.trackerCalls = 0

LoggedOutAfterConnect ==
    /\ loggedOut
    /\ spent # {}
    /\ \E r \in Responses("status") : r.afterLogout /\ r.resp.body = "disconnected"
    /\ \E r \in Responses("export") : r.afterLogout /\ r.resp.status = 401

\* C36: a callback whose state is missing, or differs from the verified value
\* of its state cookie, keeps the state cookie in its response; after the
\* browser applies that response it holds the state cookie it held before,
\* and a later callback that carries it with the matching state passes
\* validation.
StateCookieKeptOnRejection ==
    /\ \A r \in Callbacks :
          (r.error = None /\ (r.state = None \/ (r.code # None /\ StateMismatch(r))))
              => (r.resp.setState = Keep /\ r.exchange = "none")
    /\ rejectedState # None => jar.state = rejectedState[1]
    /\ \A r \in Callbacks :
          (r.afterRejection /\ r.error = None /\ r.code # None /\ StateMatches(r))
              => r.exchange # "none"

\* C36 witness: a callback passes validation with the state cookie that the
\* browser kept through an earlier rejected callback
AcceptedAfterRejection ==
    \E r \in Callbacks :
        /\ r.afterRejection
        /\ r.cookie # None
        /\ r.error = None
        /\ StateMatches(r)
        /\ r.exchange # "none"

\* C37: once every start has been answered, the state cookie that the
\* browser holds is the one of the nonce issued last; a callback that carries
\* the cookie of one nonce passes validation with that nonce and fails with
\* invalid_state, starting no exchange, with any other issued nonce.
OnlyLatestNonceValid ==
    /\ (InFlight("start", "response") = {} /\ jar.state # None)
          => jar.state = Some(createSignedValue(Nonce(nonceCounter)))
    /\ \A r \in Callbacks, k \in 1..nonceCounter :
          (/\ r.error = None
           /\ r.code # None
           /\ r.cookie = Some(createSignedValue(Nonce(k)))
           /\ codecSecret # NoSecret)
              => /\ r.state = Some(Nonce(k)) => r.exchange # "none"
                 /\ r.state \in {Some(Nonce(j)) : j \in (1..nonceCounter) \ {k}}
                       => /\ r.resp.error = Some("invalid_state")
                          /\ r.exchange = "none"

\* C37 witness: after two starts, the callback with the first nonce failed
\* and the callback with the second nonce got its token cookie
SecondNonceAcceptedFirstRejected ==
    /\ nonceCounter = 2
    /\ \E r \in Callbacks :
          /\ r.cookie = Some(createSignedValue(Nonce(2)))
          /\ r.state = Some(Nonce(1))
          /\ r.resp.error = Some("invalid_state")
    /\ \E r \in Callbacks :
          /\ r.cookie = Some(createSignedValue(Nonce(2)))
          /\ r.state = Some(Nonce(2))
          /\ r.resp.error = None
          /\ r.resp.setSession.op = "set"

\* C38: a callback that passed state validation and whose token exchange
\* failed deletes the state cookie in its error redirect and writes no token
\* cookie; while the browser has no token cookie, a callback that it repeats
\* with a state whose exchange it saw fail is answered invalid_state and
\* starts no exchange.
NonceConsumedBeforeExchange ==
    /\ \A r \in Responses("callback") :
          (r.exchange # "none" /\ r.resp.error # None)
              => (r.resp.setState = Delete /\ r.resp.setSession = Keep)
    /\ \A r \in Callbacks :
          (jar.session = None /\ r.replay /\ r.error = None /\ r.code # None)
              => (r.resp.error = Some("invalid_state") /\ r.exchange = "none")

\* C38 witness: the browser repeated a callback whose exchange had failed,
\* and the repeat was answered invalid_state
RepeatAfterFailedExchangeRejected ==
    /\ jar.session = None
    /\ \E r \in Responses("callback") :
          /\ r.replay
          /\ r.error = None
          /\ r.code # None
          /\ r.state # None
          /\ r.exchange = "none"
          /\ r.resp.error = Some("invalid_state")

\* C33: getLinearAccessToken makes a value of the cookie of a status or
\* export request only if that value is an access token, which is all that
\* setLinearAccessToken is ever given; a blob signed for the state cookie
\* and presented in the access-token cookie is rejected.
TokenCookieIndependent ==
    \A r \in BagToSet(requests) :
        (r.route \in {"status", "export"} /\ r.cookie # None /\ codecSecret # NoSecret)
            => \/ getLinearAccessToken(r.cookie).kind # "value"
               \/ getLinearAccessToken(r.cookie).value \in Tokens

Exports == {r \in BagToSet(requests) : r.route = "export"}

\* C24: an export request without a teamId that reaches linear.createIssue()
\* has listed the teams and calls it with the first listed team; when the
\* list is empty the request is answered 500 "Unable to resolve Linear team
\* ID" and linear.createIssue() is not called.
TeamResolvedFromList ==
    \A r \in Exports :
        r.teamId = None =>
            /\ (r.pc = "createIssue" \/ r.resp.status = 200 \/ r.issueTeam # None)
                  => /\ r.teams # None
                     /\ r.teams[1] # <<>>
                     /\ r.issueTeam = Some(Head(r.teams[1]))
            /\ r.teams = Some(<<>>)
                  => /\ r.pc = "response"
                     /\ r.resp.status = 500
                     /\ r.resp.error = Some(NoTeamResolved)
                     /\ r.issueTeam = None
                     /\ r.trackerCalls = 1

\* C24 witness: one export without a teamId created its issue in the first
\* of two listed teams, and another found no team
FirstTeamChosenAndNoTeam ==
    /\ \E r \in Exports :
          /\ r.teamId = None
          /\ r.teams = Some(<<"t2", "t1">>)
          /\ r.issueTeam = Some("t2")
          /\ r.resp.status = 200
    /\ \E r \in Exports :
          /\ r.teamId = None
          /\ r.teams = Some(<<>>)
          /\ r.resp.status = 500

\* C25: an export request that carried a verified token and whose call of
\* the issue tracker failed is answered 500, never 401, whatever the message
\* of the upstream error.
TrackerFailureIsExportFailed ==
    \A r \in Exports :
        (r.pc = "response" /\ r.trackerCalls > 0 /\ r.resp.status # 200)
            => r.resp.status = 500

\* ------------------------------------------------------------------------
\* Properties of the client pipeline
\* ------------------------------------------------------------------------
HasStatus(st) == \E i \in Indexes(tickets) : tickets[i].status = st

\* C1: a ticket that is 'exported' after a step was 'ready' (or already
\* 'exported') before it, and a step issues an issue-creation call only for a
\* ticket that is in the list with status 'ready', changing no ticket; since the
\* list starts empty, no ticket reaches 'exported' without passing through 'ready'.
ExportedOnlyAfterReady ==
    [][/\ \A i \in Indexes(tickets') :
             tickets'[i].status = "exported" =>
                 \E j \in Indexes(tickets) :
                     /\ tickets[j].id = tickets'[i].id
                     /\ tickets[j].status \in {"ready", "exported"}
       /\ \A id \in TicketIds :
             exportCalls'[id] > exportCalls[id] =>
                 /\ \E j \in Indexes(tickets) :
                         tickets[j].id = id /\ tickets[j].status = "ready"
                 /\ tickets' = tickets]_vars

SomeTicketExported == HasStatus("exported")

\* C2: every step that changes the status of a ticket takes one of the edges
\* pending->generating, generating->ready, generating->pending, ready->exported.
StatusEdges ==
    {<<"pending", "generating">>, <<"generating", "ready">>,
     <<"generating", "pending">>, <<"ready", "exported">>}

OnlyLifecycleEdges ==
    [][\A i \in Indexes(tickets), j \in Indexes(tickets') :
          (tickets[i].id = tickets'[j].id /\ tickets[i].status # tickets'[j].status)
              => <<tickets[i].status, tickets'[j].status>> \in StatusEdges]_vars

FailureAndExportEdgesTaken == HasStatus("pending") /\ HasStatus("exported")

\* C3: for every ticket, a non-null selectedVariantIndex is a valid index into
\* the ticket's variants.
SelectedIndexValid ==
    \A i \in Indexes(tickets) :
        tickets[i].selectedVariantIndex # None =>
            /\ 0 <= tickets[i].selectedVariantIndex[1]
            /\ tickets[i].selectedVariantIndex[1] < Len(tickets[i].mockupVariants)

\* C4: selectVariant with an index outside the variants of the ticket changes
\* nothing; with an index inside it changes only selectedVariantIndex of that ticket.
InRange(list, ticketId, index) ==
    \E i \in Indexes(list) :
        list[i].id = ticketId /\ 0 <= index /\ index < Len(list[i].mockupVariants)

SelectVariantFrame ==
    [][\A id \in TicketIds, index \in IndexInputs :
          handleSelectMockupVariant(id, index) =>
              IF InRange(tickets, id, index)
              THEN /\ Len(tickets') = Len(tickets)
                   /\ \A i \in Indexes(tickets) :
                         IF tickets[i].id = id
                         THEN tickets'[i] =
                                 [tickets[i] EXCEPT !.selectedVariantIndex = Some(index)]
                         ELSE tickets'[i] = tickets[i]
              ELSE tickets' = tickets]_vars

\* C5: every 'exported' ticket has a linearUrl, and it is the url returned by
\* an issue-creation call made for that ticket; a step that makes a ticket
\* 'exported' is the return of such a call.
ExportedHasUrl ==
    /\ [](\A i \in Indexes(tickets) :
            tickets[i].status = "exported" =>
                /\ tickets[i].linearUrl # Undefined
                /\ tickets[i].linearUrl = IssueUrl(tickets[i].id))
    /\ [][\A i \in Indexes(tickets), j \in Indexes(tickets') :
             (/\ tickets[i].id = tickets'[j].id
              /\ tickets[i].status # "exported"
              /\ tickets'[j].status = "exported")
                 => exportCalls'[tickets[i].id] = exportCalls[tickets[i].id] - 1]_vars

ExportedWithUrl ==
    \E i \in Indexes(tickets) :
        tickets[i].status = "exported" /\ tickets[i].linearUrl = IssueUrl(tickets[i].id)

\* C6: a classification result appends exactly one entry to detectedIntents
\* when isUiRequest is true and confidence > 0.6, and otherwise changes neither
\* detectedIntents nor tickets; nothing else adds to detectedIntents.
IntentSurfacedIff ==
    [][/\ \A call \in intentCalls, result \in IntentResults :
             detectIntentResolved(call, result) =>
                 IF result.isUiRequest /\ result.confidence > 60
                 THEN /\ Len(detectedIntents') = Len(detectedIntents) + 1
                      /\ SubSeq(detectedIntents', 1, Len(detectedIntents)) = detectedIntents
                      /\ detectedIntents'[Len(detectedIntents')].transcriptText = call.text
                      /\ detectedIntents'[Len(detectedIntents')].confidence = result.confidence
                 ELSE detectedIntents' = detectedIntents /\ tickets' = tickets
       /\ detectedIntents' # detectedIntents =>
             \E call \in intentCalls, result \in IntentResults :
                 detectIntentResolved(call, result)]_vars

IntentSurfacedWithoutTicket ==
    /\ Len(detectedIntents) = 1
    /\ detectedIntents[1].confidence = 70
    /\ ticketIdCounter = 0

\* C7: a classification result appends a ticket exactly when isUiRequest is
\* true and confidence > 0.7; the ticket is appended in 'generating' with no
\* variants and a null selectedVariantIndex, whatever tickets already exist.
TicketCreatedIff ==
    [][\A call \in intentCalls, result \in IntentResults :
          detectIntentResolved(call, result) =>
              IF result.isUiRequest /\ result.confidence > 70
              THEN /\ Len(tickets') = Len(tickets) + 1
                   /\ SubSeq(tickets', 1, Len(tickets)) = tickets
                   /\ tickets'[Len(tickets')].status = "generating"
                   /\ tickets'[Len(tickets')].mockupVariants = <<>>
                   /\ tickets'[Len(tickets')].selectedVariantIndex = None
                   /\ tickets'[Len(tickets')].intent.transcriptText = call.text
              ELSE tickets' = tickets]_vars

DuplicateTicketsCreated ==
    /\ Len(tickets) = 2
    /\ tickets[1].intent.component = tickets[2].intent.component
    /\ tickets[2].status = "generating"

MockupSuccessApplied ==
    [][\A i \in Indexes(tickets) :
          (tickets[i].id \in mockupCalls /\ tickets[i].id \notin mockupCalls')
              => \E j \in Indexes(tickets') :
                    /\ tickets'[j].id = tickets[i].id
                    /\ \/ \E variants \in VariantLists(tickets[i].id) :
                             tickets'[j] = [tickets[i] EXCEPT
                                               !.mockupVariants = variants,
                                               !.selectedVariantIndex = Some(0),
                                               !.status = "ready"]
                       \/ tickets'[j] = [tickets[i] EXCEPT !.status = "pending"]]_vars

MockupAppliedToTicket ==
    \E i \in Indexes(tickets) :
        /\ tickets[i].status = "ready"
        /\ tickets[i].mockupVariants \in VariantLists(tickets[i].id)
        /\ Len(tickets[i].mockupVariants) = MaxVariants
        /\ tickets[i].selectedVariantIndex = Some(0)
        /\ tickets[i].id \notin mockupCalls

\* C21: when the generateMockup call of a ticket of the list settles, the
\* ticket keeps its place in the list, and unless it became ready it was
\* 'generating' and is now the same ticket with status 'pending' and no
\* variants; a step that takes a ticket out of the list is a
\* handleRemoveTicket step.
GenerationFailureKeepsTicket ==
    [][/\ \A i \in Indexes(tickets) :
             (tickets[i].id \in mockupCalls /\ tickets[i].id \notin mockupCalls')
                 => /\ Len(tickets') = Len(tickets)
                    /\ tickets'[i].id = tickets[i].id
                    /\ tickets'[i].status # "ready"
                          => /\ tickets[i].status = "generating"
                             /\ tickets'[i] = [tickets[i] EXCEPT !.status = "pending"]
                             /\ tickets'[i].mockupVariants = <<>>
       /\ ~(IdsOf(tickets) \subseteq IdsOf(tickets'))
             => \E id \in TicketIds : handleRemoveTicket(id)]_vars

\* C21 witness: a ticket whose generation failed is in the list, pending, without variants
FailedTicketKept ==
    \E i \in Indexes(tickets) :
        /\ tickets[i].status = "pending"
        /\ tickets[i].mockupVariants = <<>>
        /\ tickets[i].id \notin mockupCalls

\* C22: the step in which a detectIntent call fails takes that one call out
\* of the calls in flight and changes neither detectedIntents nor tickets,
\* starts no generateMockup call, sets neither isGeneratingMockup nor an
\* error status, and leaves the pending debounce timer and the other calls
\* in flight as they were, so that later fragments are classified.
ClassifierFailureSwallowed ==
    [][failedFragment' # failedFragment
          => /\ UNCHANGED <<detectedIntents, tickets, mockupCalls, isGeneratingMockup>>
             /\ UNCHANGED <<connectionStatus, timers, intentDebounceRef>>
             /\ intentCalls' \subseteq intentCalls
             /\ Cardinality(intentCalls \ intentCalls') = 1]_vars

\* C22 witness: the classification of the first fragment failed and the
\* second fragment was classified and surfaced
LaterFragmentClassified ==
    /\ failedFragment = 1
    /\ \E i \in Indexes(detectedIntents) : detectedIntents[i].transcriptText = 2

\* C23: a ticket becomes 'exported' only in the step in which an
\* exportToLinear call made for it returns, and with that call's url; a
\* step in which an exportToLinear call returns either marks its ticket
\* exported or, the call having failed, leaves every ticket as it was, so
\* that a ticket that was ready can still be exported.
ExportedOnlyAfterSuccess ==
    [][/\ \A j \in Indexes(tickets') :
             (/\ tickets'[j].status = "exported"
              /\ \A i \in Indexes(tickets) :
                     tickets[i].id = tickets'[j].id => tickets[i].status # "exported")
                 => /\ exportCalls'[tickets'[j].id] = exportCalls[tickets'[j].id] - 1
                    /\ tickets'[j].linearUrl = IssueUrl(tickets'[j].id)
       /\ \A id \in TicketIds :
             exportCalls'[id] < exportCalls[id]
                 => \/ tickets' = MapTicket(tickets, id,
                            [i \in Indexes(tickets) |-> MarkExported(tickets[i], IssueUrl(id))])
                    \/ /\ tickets' = tickets
                       /\ CanExport(id) => CanExport(id)']_vars

\* C23 witness: the only export call made so far, for the only ticket
\* created so far, has returned, and the ticket is in the list, ready and
\* exportable: the call failed
ReadyAfterFailedExport ==
    /\ ticketIdCounter = 1
    /\ exportSeq = 1
    /\ exportCalls[1] = 0
    /\ Len(tickets) = 1
    /\ tickets[1].status = "ready"
    /\ CanExport(1)

\* C26: nothing stands between the export click and the export result:
\* whenever a ticket passes the early returns of handleExportTicket, also
\* while export calls for it are in flight, the click issues one more
\* exportToLinear call for it (up to the bound of the model on export calls).
NoExportGuard ==
    \A id \in TicketIds :
        (CanExport(id) /\ exportSeq < MaxExports)
            => ENABLED (handleExportTicket(id) /\ exportCalls'[id] = exportCalls[id] + 1)

\* C26 witness: two exportToLinear calls are in flight for one ready ticket
TwoExportCallsInFlight ==
    \E i \in Indexes(tickets) :
        /\ tickets[i].status = "ready"
        /\ exportCalls[tickets[i].id] = 2

\* C27: once endSession has ended the call, a step in which a pending
\* debounce timer fires or a detectIntent or generateMockup call returns
\* adds no detected intent, creates no ticket and changes no ticket.
ResultsIgnoredAfterEndSession ==
    [][(/\ sessionSeq > 0
        /\ connectionStatus = "disconnected"
        /\ connectionStatus' = "disconnected"
        /\ (intentCalls' # intentCalls \/ mockupCalls' # mockupCalls))
          => /\ detectedIntents' = detectedIntents
             /\ tickets' = tickets]_vars

\* C28: the step in which the generateMockup call of ticket id returns or
\* throws keeps the list's length and order and leaves every ticket with
\* another id exactly as it was.
GenerationResultFrame ==
    [][\A id \in mockupCalls :
          id \notin mockupCalls'
              => /\ Len(tickets') = Len(tickets)
                 /\ \A i \in Indexes(tickets) :
                       tickets[i].id # id => tickets'[i] = tickets[i]]_vars

\* C28 witness: the result for the later ticket was applied while the call
\* of the earlier ticket is still in flight, and the earlier ticket is
\* untouched
LaterResultAppliedFirst ==
    /\ Len(tickets) = 2
    /\ tickets[1].id = 1 /\ tickets[1].status = "generating" /\ 1 \in mockupCalls
    /\ tickets[1].mockupVariants = <<>>
    /\ tickets[2].id = 2 /\ tickets[2].status = "ready" /\ 2 \notin mockupCalls
    /\ tickets[2].mockupVariants \in VariantLists(2)

\* C29: after every step at most one debounce timer is pending, and it is
\* the one that intentDebounceRef holds; the step in which a message
\* arrives leaves the detectIntent and generateMockup calls in flight as
\* they were.
OneTimerPending ==
    [][/\ Cardinality(timers') <= 1
       /\ \A t \in timers' : t.id = intentDebounceRef'
       /\ eventIdCounter' # eventIdCounter
             => /\ intentCalls' = intentCalls
                /\ mockupCalls' = mockupCalls]_vars

\* C29 witness: the timer of the second fragment is pending while the
\* classification of the first fragment is still in flight
TimerPendingBesideCall ==
    /\ \E t \in timers : t.text = 2
    /\ \E call \in intentCalls : call.text = 1

\* the list holds ticket id with status 'generating'
Generating(id) ==
    \E i \in Indexes(tickets) : tickets[i].id = id /\ tickets[i].status = "generating"

\* C30: when every generateMockup call eventually returns or throws, a
\* ticket that is 'generating' is eventually ready, pending or removed.
GeneratingEventuallySettles ==
    \A id \in TicketIds : Generating(id) ~> ~Generating(id)

\* C30 witness: two tickets were created in 'generating'; every call has
\* returned, one ticket was removed and the other is ready or pending
EveryGenerationSettled ==
    /\ ticketIdCounter = 2
    /\ mockupCalls = {}
    /\ Len(tickets) = 1
    /\ tickets[1].status \in {"ready", "pending"}

\* the list holds ticket id with status 'pending'
Pending(id) ==
    \E i \in Indexes(tickets) : tickets[i].id = id /\ tickets[i].status = "pending"

\* C31: a ticket that is 'pending' can be retried: some operation of the
\* client moves it to 'generating'.
PendingCanBeRetried ==
    \A id \in TicketIds : Pending(id) => ENABLED (Next /\ Generating(id)')

\* C32: ticketIdCounter never decreases and every ticket of the list has
\* an id up to it; the step that adds a ticket gives it an id above
\* ticketIdCounter, so above the id of every ticket created before, removed
\* or not; ids increase along the list.
TicketIdsNeverReused ==
    [][/\ ticketIdCounter' >= ticketIdCounter
       /\ \A j \in Indexes(tickets') :
             /\ tickets'[j].id <= ticketIdCounter'
             /\ tickets'[j].id \notin IdsOf(tickets) => tickets'[j].id > ticketIdCounter
             /\ \A k \in Indexes(tickets') : j < k => tickets'[j].id < tickets'[k].id]_vars

\* C32 witness: the first ticket was removed and the only ticket of the
\* list is the second one created, with id 2
RemovedIdNotReused ==
    /\ Len(tickets) = 1
    /\ tickets[1].id = 2
    /\ tickets[1].status = "generating"
    /\ detectedIntents[Len(detectedIntents)].transcriptText = 2
    /\ intentCalls = {} /\ timers = {}

\* C34: the step in which the generateMockup call of a ticket that is no
\* longer in the list returns or throws leaves the ticket list as it was.
RemovedTicketResultIgnored ==
    [][\A id \in mockupCalls :
          (id \notin mockupCalls' /\ id \notin IdsOf(tickets)) => tickets' = tickets]_vars

\* C34 witness: a result has arrived for a removed ticket while another
\* ticket is in the list
ResultAfterRemoval ==
    /\ staleResult
    /\ tickets # <<>>

\* C35: whenever a ticket of the list is 'generating', isGeneratingMockup
\* is true.
GeneratingImpliesFlag ==
    HasStatus("generating") => isGeneratingMockup

\* C39: a ticket that is 'generating' or 'pending' has no variants, and a
\* ticket that is 'ready' or 'exported' has the one or two variants that
\* its own generateMockup call returned.
VariantsMatchStatus ==
    \A i \in Indexes(tickets) :
        /\ tickets[i].status \in {"generating", "pending"} => tickets[i].mockupVariants = <<>>
        /\ tickets[i].status \in {"ready", "exported"}
              => tickets[i].mockupVariants \in VariantLists(tickets[i].id)

\* C39 witness: an exported ticket with two variants beside a pending ticket
ExportedWithVariantsBesidePending ==
    /\ \E i \in Indexes(tickets) :
          tickets[i].status = "exported" /\ Len(tickets[i].mockupVariants) = 2
    /\ \E i \in Indexes(tickets) :
          tickets[i].status = "pending" /\ tickets[i].mockupVariants = <<>>

====
